---- MODULE Spec2Model ----
(***************************************************************************)
(* Model of the reconciliation engine of notion-to-markdown:               *)
(*   src/src/types.ts    (utils/bundle: createSlug, getBundlePath)         *)
(*   src/src/types/hugo.ts (DEFAULT_HUGO_BUNDLE_CONFIG)                    *)
(*   src/src/file.ts     (getContentFile, getAllContentFiles)              *)
(*   src/src/pageMap.ts  (buildSourcePageMap, buildContentFileMap,         *)
(*                        compareAndCreateActionMap)                       *)
(*   src/src/index.ts    (main)                                            *)
(*                                                                         *)
(* Strings that the code takes apart are sequences of tokens: a title is   *)
(* the sequence of its words and punctuation marks, a path segment is the  *)
(* sequence of the words that slugify joins with "-" (followed by ".md"    *)
(* for a markdown file), a path is the sequence of its segments.           *)
(***************************************************************************)
EXTENDS Integers, Sequences, FiniteSets, TLC

(* ---------------------------------------------------------------------- *)
(* Bounds                                                                  *)
(* ---------------------------------------------------------------------- *)

\* last-edited instants range over 1..MaxTime
MaxTime == 2

(* ---------------------------------------------------------------------- *)
(* Generic helpers                                                         *)
(* ---------------------------------------------------------------------- *)

Range(s) == {s[i] : i \in DOMAIN s}

Last(s) == s[Len(s)]

Front(s) == SubSeq(s, 1, Len(s) - 1)

Min(a, b) == IF a <= b THEN a ELSE b

\* s contains k as a contiguous run (String.prototype.includes)
Includes(s, k) ==
  \E i \in 0..(Len(s) - Len(k)) : SubSeq(s, i + 1, i + Len(k)) = k

(* ---------------------------------------------------------------------- *)
(* Paths (node:path)                                                       *)
(* ---------------------------------------------------------------------- *)

Dot == <<".">>

MdExt == ".md"

\* path.join: concatenates, drops empty and "." segments
PathJoin(p, q) == SelectSeq(p \o q, LAMBDA seg : seg # <<>> /\ seg # Dot)

\* path.basename
Basename(p) == IF p = <<>> THEN <<>> ELSE Last(p)

\* path.dirname
Dirname(p) == IF p = <<>> THEN <<>> ELSE Front(p)

\* p lies in directory d or below it
IsUnder(p, d) == Len(p) > Len(d) /\ SubSeq(p, 1, Len(d)) = d

ContentRoot == << <<"content">> >>

IndexMd == <<"index", MdExt>>

UnderscoreIndexMd == <<"_index", MdExt>>

(* ---------------------------------------------------------------------- *)
(* Titles and slugs                                                        *)
(* ---------------------------------------------------------------------- *)

\* String.prototype.toLowerCase on one token
Lower(tok) ==
  CASE tok = "My" -> "my"
    [] tok = "Post" -> "post"
    [] tok = "Other" -> "other"
    [] tok = "About" -> "about"
    [] tok = "Me" -> "me"
    [] OTHER -> tok

LowerSeq(s) == [i \in DOMAIN s |-> Lower(s[i])]

\* tokens slugify's strict mode strips
Punctuation == {"!", "?"}

\* slugify(title, {lower: true, strict: true, replacement: '-'}): the
\* lowercased words, which the path segment joins with "-"
createSlug(title) ==
  SelectSeq(LowerSeq(title), LAMBDA tok : tok \notin Punctuation)

(* ---------------------------------------------------------------------- *)
(* Hugo bundle configuration                                               *)
(* ---------------------------------------------------------------------- *)

\* useBundle of a special page is optional: "undefined", "true" or "false";
\* an absent indexFile is the empty segment
DEFAULT_HUGO_BUNDLE_CONFIG ==
  [ specialPages |-> <<
      [key |-> <<"about">>, type |-> "page", useBundle |-> "undefined", indexFile |-> <<>>],
      [key |-> <<"about", "me">>, type |-> "page", useBundle |-> "undefined", indexFile |-> <<>>],
      [key |-> <<"disclaimer">>, type |-> "page", useBundle |-> "undefined", indexFile |-> <<>>],
      [key |-> <<"privacy">>, type |-> "page", useBundle |-> "undefined", indexFile |-> <<>>],
      [key |-> <<"contact">>, type |-> "page", useBundle |-> "undefined", indexFile |-> <<>>] >>,
    contentTypes |-> [ posts |-> [useBundle |-> TRUE, indexFile |-> IndexMd],
                       page  |-> [useBundle |-> TRUE, indexFile |-> IndexMd] ] ]

\* index of the first special page whose key the lowered title includes, 0 if none
SpecialPageIndex(bundleConfig, lowerTitle) ==
  LET hits == {i \in DOMAIN bundleConfig.specialPages :
                 Includes(lowerTitle, bundleConfig.specialPages[i].key)}
  IN IF hits = {} THEN 0 ELSE CHOOSE i \in hits : \A j \in hits : i <= j

\* getBundlePath that takes the settings of the passed content type whatever
\* the title
getBundlePath_ContentTypeOnly(title, pageId, contentType, targetFolder, bundleConfig) ==
  LET slug == createSlug(title)
      cfg == IF contentType \in DOMAIN bundleConfig.contentTypes
             THEN bundleConfig.contentTypes[contentType]
             ELSE bundleConfig.contentTypes.page
      baseDir == PathJoin(ContentRoot, targetFolder)
  IN IF cfg.useBundle
     THEN [ bundleDirPath |-> PathJoin(baseDir, <<slug>>),
            indexFilePath |-> PathJoin(PathJoin(baseDir, <<slug>>), <<cfg.indexFile>>),
            slug |-> slug,
            indexFileName |-> cfg.indexFile,
            isBundle |-> TRUE ]
     ELSE [ bundleDirPath |-> baseDir,
            indexFilePath |-> PathJoin(baseDir, <<slug \o <<MdExt>> >>),
            slug |-> slug,
            indexFileName |-> slug \o <<MdExt>>,
            isBundle |-> FALSE ]

getBundlePath(title, pageId, contentType, targetFolder, bundleConfig) ==
  LET slug == createSlug(title)
      lowerTitle == LowerSeq(title)
      sp == SpecialPageIndex(bundleConfig, lowerTitle)
      defaultCfg == IF contentType \in DOMAIN bundleConfig.contentTypes
                    THEN bundleConfig.contentTypes[contentType]
                    ELSE bundleConfig.contentTypes.page
      spCfg == bundleConfig.specialPages[sp]
      contentTypeConfig == IF sp = 0 THEN defaultCfg
                           ELSE bundleConfig.contentTypes[spCfg.type]
      useBundle == IF sp = 0 THEN defaultCfg.useBundle
                   ELSE IF spCfg.useBundle # "undefined" THEN spCfg.useBundle = "true"
                   ELSE contentTypeConfig.useBundle
      indexFileName == IF sp = 0 THEN defaultCfg.indexFile
                       ELSE IF spCfg.indexFile # <<>> THEN spCfg.indexFile
                       ELSE contentTypeConfig.indexFile
      baseDir == PathJoin(ContentRoot, targetFolder)
  IN IF useBundle
     THEN [ bundleDirPath |-> PathJoin(baseDir, <<slug>>),
            indexFilePath |-> PathJoin(PathJoin(baseDir, <<slug>>), <<indexFileName>>),
            slug |-> slug,
            indexFileName |-> indexFileName,
            isBundle |-> TRUE ]
     ELSE [ bundleDirPath |-> baseDir,
            indexFilePath |-> PathJoin(baseDir, <<slug \o <<MdExt>> >>),
            slug |-> slug,
            indexFileName |-> slug \o <<MdExt>>,
            isBundle |-> FALSE ]

(* ---------------------------------------------------------------------- *)
(* Timestamps                                                              *)
(* ---------------------------------------------------------------------- *)

\* A timestamp text reads local time t at UTC offset off; the instant it
\* denotes is t - off.  The empty string is EmptyText.
TimeText(t, off) == [kind |-> "ts", t |-> t, off |-> off]

EmptyText == [kind |-> "empty", t |-> 0, off |-> 0]

\* new Date(text).toISOString(): the same instant, written in UTC
ToISOString(text) == TimeText(text.t - text.off, 0)

Instant(text) == text.t - text.off

(* ---------------------------------------------------------------------- *)
(* compareAndCreateActionMap (pageMap.ts)                                  *)
(* ---------------------------------------------------------------------- *)

\* contentFiles.find(file => file.id === id): index of the first match, 0 if none
FindIndex(contentFiles, id) ==
  LET hits == {i \in DOMAIN contentFiles : contentFiles[i].id = id}
  IN IF hits = {} THEN 0 ELSE CHOOSE i \in hits : \A j \in hits : i <= j

ContentTypeOf(sourcePage) ==
  IF sourcePage.mountType = "database" THEN "posts" ELSE "page"

DerivedPath(sourcePage) ==
  getBundlePath(sourcePage.title, sourcePage.id, ContentTypeOf(sourcePage),
                sourcePage.targetFolder, DEFAULT_HUGO_BUNDLE_CONFIG)

\* the bundle directory of the matching file is not the derived one
IsBundleRename(sourcePage, matchingFile) ==
  /\ matchingFile.isBundle
  /\ Basename(Dirname(matchingFile.filepath)) # Basename(DerivedPath(sourcePage).bundleDirPath)

IsFlatToBundle(sourcePage, matchingFile) ==
  /\ ~matchingFile.isBundle
  /\ DerivedPath(sourcePage).isBundle

\* HasStructuralChange that overlooks the flat-to-bundle conversion
HasStructuralChange_RenameOnly(sourcePage, matchingFile) ==
  IsBundleRename(sourcePage, matchingFile)

HasStructuralChange(sourcePage, matchingFile) ==
  IsBundleRename(sourcePage, matchingFile) \/ IsFlatToBundle(sourcePage, matchingFile)

\* TimesDiffer on the raw texts
TimesDiffer_Raw(sourcePage, matchingFile) ==
  matchingFile.lastEdited # sourcePage.lastEdited

\* fileLastEdited !== sourceLastEdited, both through new Date(..).toISOString()
TimesDiffer(sourcePage, matchingFile) ==
  LET sourceLastEdited == ToISOString(sourcePage.lastEdited)
      fileLastEdited == IF matchingFile.lastEdited # EmptyText
                        THEN ToISOString(matchingFile.lastEdited)
                        ELSE EmptyText
  IN fileLastEdited # sourceLastEdited

\* renamedPages.set(id, {oldName, newName})
MapSet(map, id, oldName, newName) ==
  {r \in map : r.id # id} \cup {[id |-> id, oldName |-> oldName, newName |-> newName]}

\* Skipped without the shouldProcess gate
Skipped_NoGate(sourcePage) == FALSE

\* if (!sourcePage.shouldProcess) continue
Skipped(sourcePage) == ~sourcePage.shouldProcess

\* one iteration of the first pass
ClassifyPage(acc, sourcePage, contentFiles) ==
  IF Skipped(sourcePage) THEN acc
  ELSE
    LET m == FindIndex(contentFiles, sourcePage.id)
        seen == [acc EXCEPT !.existingIds = @ \cup {sourcePage.id}]
    IN IF m = 0
       THEN [seen EXCEPT !.toCreate = Append(@, sourcePage)]
       ELSE
         LET matchingFile == contentFiles[m]
             renamed == IF IsBundleRename(sourcePage, matchingFile)
                        THEN [seen EXCEPT !.renamedPages =
                                MapSet(@, sourcePage.id,
                                       Basename(Dirname(matchingFile.filepath)),
                                       Basename(DerivedPath(sourcePage).bundleDirPath))]
                        ELSE seen
         IN IF TimesDiffer(sourcePage, matchingFile)
               \/ HasStructuralChange(sourcePage, matchingFile)
            THEN [renamed EXCEPT !.toUpdate = Append(@, sourcePage)]
            ELSE [renamed EXCEPT !.unchanged = Append(@, sourcePage)]

RECURSIVE FirstPass(_, _, _, _)
FirstPass(sourcePages, contentFiles, i, acc) ==
  IF i > Len(sourcePages) THEN acc
  ELSE FirstPass(sourcePages, contentFiles, i + 1,
                 ClassifyPage(acc, sourcePages[i], contentFiles))

\* SecondPass that ignores which pages were processed
SecondPass_AllFiles(contentFiles, existingIds) ==
  SelectSeq(contentFiles, LAMBDA file : file.id \notin (existingIds \ {file.id}))

\* second pass: contentFiles.filter(file => !existingIds.has(file.id))
SecondPass(contentFiles, existingIds) ==
  SelectSeq(contentFiles, LAMBDA file : file.id \notin existingIds)

EmptyAcc ==
  [toCreate |-> <<>>, toUpdate |-> <<>>, unchanged |-> <<>>,
   existingIds |-> {}, renamedPages |-> {}]

compareAndCreateActionMap(sourcePages, contentFiles) ==
  LET acc == FirstPass(sourcePages, contentFiles, 1, EmptyAcc)
  IN [ toCreate |-> acc.toCreate,
       toUpdate |-> acc.toUpdate,
       toDelete |-> SecondPass(contentFiles, acc.existingIds),
       unchanged |-> acc.unchanged,
       renamedPages |-> acc.renamedPages ]

EmptyActionMap ==
  [toCreate |-> <<>>, toUpdate |-> <<>>, toDelete |-> <<>>, unchanged |-> <<>>,
   renamedPages |-> {}]

(* ---------------------------------------------------------------------- *)
(* Remote pages (helpers.ts)                                               *)
(* ---------------------------------------------------------------------- *)

NoId == ""

\* the properties getPageShouldBeProcessed reads; "" is an absent property
Props(parentType, format, platform, status) ==
  [parentType |-> parentType, Format |-> format, Platform |-> platform, status |-> status]

PageObject(id, title, lastEditedTime, props) ==
  [id |-> id, title |-> title, last_edited_time |-> lastEditedTime, props |-> props]

\* a PageMapItem without payload
NoPage == PageObject(NoId, <<>>, EmptyText, Props("", "", "", ""))

Untitled == <<"Untitled">>

getPageTitle(page) == IF page.title # <<>> THEN page.title ELSE Untitled

\* status.name.toLowerCase()
LowerStatus(status) ==
  CASE status = "Draft" -> "draft"
    [] status = "In Progress" -> "in progress"
    [] status = "Done" -> "done"
    [] OTHER -> status

getPageShouldBeProcessed(page) ==
  IF page.props.parentType = "page_id" THEN TRUE
  ELSE IF page.props.Format # "" /\ page.props.Format # "Social" THEN FALSE
  ELSE IF page.props.Platform # "" /\ page.props.Platform # "Blog" THEN FALSE
  ELSE IF page.props.Format # "Social" THEN FALSE
  ELSE IF page.props.Platform # "Blog" THEN FALSE
  ELSE LowerStatus(page.props.status) \notin {"draft", "in progress"}

ReadyProps == Props("database_id", "Social", "Blog", "Done")

DraftProps == Props("database_id", "Social", "Blog", "Draft")

ChildProps == Props("page_id", "", "", "")

(* ---------------------------------------------------------------------- *)
(* Content files on disk (file.ts, fs-extra)                               *)
(* ---------------------------------------------------------------------- *)

\* a markdown file: its path and what its front matter holds
DiskFile(filepath, id, nmId, lastEdited, updateTime) ==
  [ filepath |-> filepath, id |-> id, nmId |-> nmId,
    lastEdited |-> lastEdited, updateTime |-> updateTime ]

\* the page id a 32-hex-digit file name token stands for
IdOfHex(tok) ==
  CASE tok = "hex1" -> "p1"
    [] tok = "hex2" -> "p2"
    [] tok = "hex3" -> "p3"
    [] OTHER -> NoId

\* /[-_]([a-f0-9]{32})\.md$/i
extractNotionIdFromFilename(filename) ==
  IF Len(filename) >= 3 /\ Last(filename) = MdExt
  THEN IdOfHex(filename[Len(filename) - 1])
  ELSE NoId

\* ResolveId that lets the NOTION_METADATA id win over the direct id
ResolveId_NestedFirst(file) ==
  IF file.nmId # NoId THEN file.nmId
  ELSE IF file.id # NoId THEN file.id
  ELSE extractNotionIdFromFilename(Basename(file.filepath))

\* metadata.id after getContentFile's fallbacks
ResolveId(file) ==
  IF file.id # NoId THEN file.id
  ELSE IF file.nmId # NoId THEN file.nmId
  ELSE extractNotionIdFromFilename(Basename(file.filepath))

Exists(d, path) == \E f \in d : f.filepath = path

\* fs.writeFileSync
WriteFile(d, file) == {f \in d : f.filepath # file.filepath} \cup {file}

\* fs.unlinkSync
Unlink(d, path) == {f \in d : f.filepath # path}

\* fs.removeSync on a directory
RemoveDir(d, dir) == {f \in d : ~IsUnder(f.filepath, dir)}

\* isBundle as buildContentFileMap sets it
IsBundleName(fileName) == fileName = IndexMd \/ fileName = UnderscoreIndexMd

FileItem(id, filepath, lastEdited) ==
  [ id |-> id, filepath |-> filepath, lastEdited |-> lastEdited,
    isBundle |-> IsBundleName(Basename(filepath)) ]

\* the files getAllContentFiles keeps: markdown files with a resolved id
ScannedFiles(d) ==
  {f \in d : Last(Basename(f.filepath)) = MdExt /\ ResolveId(f) # NoId}

RECURSIVE SetToSeq(_)
SetToSeq(S) ==
  IF S = {} THEN <<>>
  ELSE LET x == CHOOSE y \in S : TRUE IN <<x>> \o SetToSeq(S \ {x})

\* The orders in which readdirSync can list the files.  Only which file of
\* several with one id comes first reaches the result of the run, so an
\* order is a choice of those leaders, followed by the other files.
ScanOrders(d) ==
  LET files == ScannedFiles(d)
      leaderSets == {L \in SUBSET files :
                       /\ \A f \in files : \E g \in L : ResolveId(g) = ResolveId(f)
                       /\ \A f, g \in L : ResolveId(f) = ResolveId(g) => f = g}
  IN {SetToSeq(L) \o SetToSeq(files \ L) : L \in leaderSets}

buildContentFileMap(scanned) ==
  [k \in DOMAIN scanned |->
     FileItem(ResolveId(scanned[k]), scanned[k].filepath, scanned[k].lastEdited)]

(* ---------------------------------------------------------------------- *)
(* Image files and the tracking database (imageTracker.ts, imageHandler.ts) *)
(* ---------------------------------------------------------------------- *)

IMAGE_DIR == << <<"static">>, <<"images">> >>

\* pageId.replace(/-/g, '').substring(0, 8): p1 and p2 are two ids that
\* start with the same 8 hex digits
PageIdPrefix(pageId) ==
  CASE pageId = "p1" -> "0a0a0a0a"
    [] pageId = "p2" -> "0a0a0a0a"
    [] pageId = "p3" -> "0b0b0b0b"
    [] OTHER -> pageId

\* An image URL: the segments of its pathname and its query parameters, each
\* parameter a pair <<key, value>>.  Every pathname ends in a file name of
\* three characters or more.
Url(pathname, params) == [pathname |-> pathname, params |-> params]

\* key.includes('X-Amz-')
IsSigningKey(key) == key \in {"X-Amz-Signature", "X-Amz-Credential"}

\* the parts generateContentId joins with "|": the pathname and every
\* query parameter whose key has no X-Amz-
contentParts(url) ==
  <<url.pathname>> \o SelectSeq(url.params, LAMBDA p : ~IsSigningKey(p[1]))

\* crypto.createHash('md5').update(..).digest('hex') on the joined parts,
\* one digest for each text
Md5(parts) ==
  CASE parts = << <<"d1", "a.png">> >> -> "md5-c1"
    [] parts = << <<"d1", "a.png">>, <<"w", "1">> >> -> "md5-c2"
    [] parts = << <<"d2", "b.png">> >> -> "md5-c3"
    [] parts = << <<"d3", "a.png">> >> -> "md5-c4"
    [] OTHER -> "md5-c0"

\* digest.substring(0, 8)
Substring8(digest) ==
  CASE digest = "md5-c1" -> "c1"
    [] digest = "md5-c2" -> "c2"
    [] digest = "md5-c3" -> "c3"
    [] digest = "md5-c4" -> "c4"
    [] OTHER -> "c0"

generateContentId(url) == Md5(contentParts(url))

\* The name of an image file.  notion-{prefix}-{cid}-{ts}.{ext} is the form
\* imageTracker.ts writes and parses (file holds the extension),
\* img-{prefix}-{file} the form imageHandler.ts writes.
TrackerName(prefix, cid, ts, ext) ==
  [kind |-> "notion", prefix |-> prefix, cid |-> cid, ts |-> ts, file |-> ext]

HandlerName(prefix, file) ==
  [kind |-> "img", prefix |-> prefix, cid |-> "", ts |-> 0, file |-> file]

\* generateImageFilename of imageTracker.ts
generateImageFilename_tracker(url, pageId, now) ==
  TrackerName(PageIdPrefix(pageId), Substring8(generateContentId(url)), now, "png")

\* generateImageFilename of imageHandler.ts, the one its functions call
generateImageFilename(imageUrl, contentId) ==
  HandlerName(PageIdPrefix(contentId), Last(imageUrl.pathname))

\* An image file on disk: directory, name, the bytes it holds (the content
\* id of the resource, or "partial" after an interrupted write) and, as a
\* record of history, the page it was downloaded for.
ImageFile(dir, name, owner, bytes) ==
  [dir |-> dir, name |-> name, owner |-> owner, bytes |-> bytes]

ImageExists(files, dir, name) == \E f \in files : f.dir = dir /\ f.name = name

WriteImage(files, file) ==
  {f \in files : ~(f.dir = file.dir /\ f.name = file.name)} \cup {file}

\* fs.removeSync on a directory, for the image files below it
RemoveImageDir(files, dir) ==
  {f \in files : ~(f.dir = dir \/ IsUnder(f.dir, dir))}

\* files of static/images whose name starts with notion-{prefix}-
findExistingImagesForPage(files, pageId) ==
  {f \in files : /\ f.dir = IMAGE_DIR
                 /\ f.name.kind = "notion"
                 /\ f.name.prefix = PageIdPrefix(pageId)}

\* filename.includes(`-${shortContentId}-`): the two name parts that have a
\* "-" on both sides are the page prefix and the content id
IncludesContentId(name, shortContentId) ==
  name.prefix = shortContentId \/ name.cid = shortContentId

\* the matching images findLatestImageByContentId can return: those with
\* the newest timestamp; the empty set stands for null
findLatestImageByContentId(files, contentId, pageId) ==
  LET matchingImages == {f \in findExistingImagesForPage(files, pageId) :
                           IncludesContentId(f.name, Substring8(contentId))}
  IN {f \in matchingImages : \A g \in matchingImages : g.name.ts <= f.name.ts}

shouldFetchImage(files, url, pageId) ==
  LET latestImage == findLatestImageByContentId(files, generateContentId(url), pageId)
  IN IF latestImage = {} THEN TRUE
     ELSE IF \E f \in latestImage : ~ImageExists(files, f.dir, f.name) THEN TRUE
     ELSE FALSE

NoHash == "undefined"

\* a record of the tracking database, trackingDb[key]
TrackingInfo(key, localPath, lastFetched, contentHash) ==
  [key |-> key, localPath |-> localPath, lastFetched |-> lastFetched,
   contentHash |-> contentHash]

\* calculateFileHash of the file at localPath, undefined when there is none
HashAt(files, localPath) ==
  IF ImageExists(files, localPath.dir, localPath.name)
  THEN (CHOOSE f \in files : f.dir = localPath.dir /\ f.name = localPath.name).bytes
  ELSE NoHash

trackImage(db, files, contentId, localPath, now) ==
  {r \in db : r.key # contentId}
    \cup {TrackingInfo(contentId, localPath, now, HashAt(files, localPath))}

DownloadOutcomes == {"ok", "requestFailed", "writeFailed"}

\* downloadImage that records the image before the file is written
downloadImage_TrackFirst(files, db, imageUrl, filePath, contentId, outcome, owner, now) ==
  LET whole == ImageFile(filePath.dir, filePath.name, owner, generateContentId(imageUrl))
      partial == ImageFile(filePath.dir, filePath.name, owner, "partial")
      relativeImagePath == [dir |-> IMAGE_DIR, name |-> filePath.name]
      tracked == trackImage(db, files, contentId, relativeImagePath, now)
  IN CASE outcome = "ok" ->
            [files |-> WriteImage(files, whole), db |-> tracked, threw |-> FALSE]
       [] outcome = "writeFailed" ->
            [files |-> WriteImage(files, partial), db |-> tracked, threw |-> TRUE]
       [] OTHER ->
            [files |-> files, db |-> tracked, threw |-> TRUE]

\* downloadImage(imageUrl, filePath, contentId): the files and the tracking
\* database it leaves, and whether it threw.  A request that fails writes
\* nothing; a write that fails leaves the file truncated.  The tracked path
\* is /static/images/{basename of filePath}, wherever the file was written.
downloadImage(files, db, imageUrl, filePath, contentId, outcome, owner, now) ==
  LET whole == ImageFile(filePath.dir, filePath.name, owner, generateContentId(imageUrl))
      partial == ImageFile(filePath.dir, filePath.name, owner, "partial")
      relativeImagePath == [dir |-> IMAGE_DIR, name |-> filePath.name]
  IN CASE outcome = "ok" ->
            [files |-> WriteImage(files, whole),
             db |-> trackImage(db, WriteImage(files, whole), contentId,
                               relativeImagePath, now),
             threw |-> FALSE]
       [] outcome = "writeFailed" ->
            [files |-> WriteImage(files, partial), db |-> db, threw |-> TRUE]
       [] OTHER ->
            [files |-> files, db |-> db, threw |-> TRUE]

\* the image URLs imageRegex finds in a markdown text, in order, stand for
\* the text; a download task is created for every match whose URL is not
\* in downloadedImages when the loop runs
DownloadTasks(markdown, downloaded) ==
  {k \in DOMAIN markdown : markdown[k] \notin downloaded}

\* the orders in which the tasks of a set can complete
Orders(tasks) ==
  {o \in [1..Cardinality(tasks) -> tasks] : \A i, j \in DOMAIN o : o[i] = o[j] => i = j}

\* where processImagesInMarkdown has match k downloaded to
ImagePathOf(markdown, k, pageId, bundlePath) ==
  [dir |-> bundlePath.bundleDirPath, name |-> generateImageFilename(markdown[k], pageId)]

\* the download tasks, each downloadImage(imageUrl, imagePath, pageId),
\* taken in the order in which they complete
RECURSIVE RunTasks(_, _, _, _, _, _, _, _)
RunTasks(files, db, markdown, pageId, bundlePath, order, outcomes, now) ==
  IF order = <<>> THEN [files |-> files, db |-> db]
  ELSE LET k == Head(order)
           r == downloadImage(files, db, markdown[k],
                              ImagePathOf(markdown, k, pageId, bundlePath),
                              pageId, outcomes[k], pageId, now)
       IN RunTasks(r.files, r.db, markdown, pageId, bundlePath, Tail(order), outcomes, now)

\* a whole file with the bytes of this URL's resource lies at the target
IsPresent(files, imageUrl, imagePath) ==
  \E f \in files : /\ f.dir = imagePath.dir /\ f.name = imagePath.name
                   /\ f.bytes = generateContentId(imageUrl)

\* what is known of a download when its task is created
Issued(files, markdown, k, pageId, bundlePath, now) ==
  [ url |-> markdown[k], pageId |-> pageId, match |-> k, at |-> now,
    needed |-> shouldFetchImage(files, markdown[k], pageId),
    present |-> IsPresent(files, markdown[k], ImagePathOf(markdown, k, pageId, bundlePath)) ]

\* processImagesInMarkdown and the Promise.all on its download tasks
processImagesInMarkdown(files, db, downloaded, markdown, pageId, bundlePath, order, outcomes, now) ==
  LET tasks == DownloadTasks(markdown, downloaded)
      r == RunTasks(files, db, markdown, pageId, bundlePath, order, outcomes, now)
  IN [ files |-> r.files,
       db |-> r.db,
       downloaded |-> downloaded \cup {markdown[k] : k \in {j \in tasks : outcomes[j] = "ok"}},
       issued |-> {Issued(files, markdown, k, pageId, bundlePath, now) : k \in tasks} ]

\* cleanupOrphanedImages of imageTracker.ts: removes the notion-* files of
\* static/images whose page prefix is the prefix of no active page id
cleanupOrphanedImages(files, activePageIds) ==
  LET activePrefixes == {PageIdPrefix(id) : id \in activePageIds}
  IN {f \in files : ~(/\ f.dir = IMAGE_DIR
                      /\ f.name.kind = "notion"
                      /\ f.name.prefix \notin activePrefixes)}

\* new RegExp(`(?:notion|img)-${pageIdShort}-`).test(file)
MatchesPageImagePattern(name, pageId) ==
  name.kind \in {"notion", "img"} /\ name.prefix = PageIdPrefix(pageId)

\* cleanupOrphanedImages of index.ts: removes the images of one page id
cleanupOrphanedImagesOfPage(files, pageId) ==
  {f \in files : ~(f.dir = IMAGE_DIR /\ MatchesPageImagePattern(f.name, pageId))}

\* migrateImagesToBundle: moves the images of one page id into its bundle
migrateImagesToBundle(files, pageId, bundleDirPath) ==
  LET allImages == {f \in files : f.dir = IMAGE_DIR /\ MatchesPageImagePattern(f.name, pageId)}
      copies == {ImageFile(bundleDirPath, f.name, f.owner, f.bytes) : f \in allImages}
      kept == {f \in files \ allImages :
                 ~\E c \in copies : c.dir = f.dir /\ c.name = f.name}
  IN kept \cup copies

(* ---------------------------------------------------------------------- *)
(* State                                                                   *)
(* ---------------------------------------------------------------------- *)

VARIABLES
  pc,            \* position of the run
  sourcePages,   \* PageMapItem[] handed to compareAndCreateActionMap
  contentFiles,  \* ContentFileMapItem[] handed to compareAndCreateActionMap
  actionMap,     \* the PageActionMap it returned
  remote,        \* the remote source: the records of each database, the mounted pages
  disk,          \* the markdown files below the content root
  run,           \* number of the current run of main
  idx,           \* loop index of main over pagesToProcess
  filesToCleanup,\* main's list of old flat files to remove
  failures,      \* number of failures injected so far
  fetchFailed,   \* mount sources whose fetch failed in this run
  outcome,       \* per page id, how its processing ended in this run
  written,       \* [filepath, id] of every index file written in this run
  diskAtStart,   \* the disk when this run started
  prevClean,     \* the previous run had no failure of any kind
  bundleConversions, \* main's list of flat-to-bundle conversions
  imageFiles,    \* the image files in static/images and in the bundle directories
  trackingDb,    \* the records of static/images/.metadata.json
  downloadedImages, \* imageHandler's set of URLs downloaded by this process
  downloads,     \* the downloads the last processImagesInMarkdown issued
  call,          \* the last call made on the image functions and its result
  ops,           \* number of calls made on the image functions
  retryConfig,   \* withRetry: the merged configuration
  apiCall,       \* withRetry: what the wrapped call does at each invocation
  retryCount,    \* withRetry: local retryCount
  delayTime,     \* withRetry: local delayTime
  lastError,     \* withRetry: local lastError
  calls,         \* withRetry: invocations of the wrapped call so far
  waits,         \* withRetry: the delays awaited so far
  retryResult    \* withRetry: what it returned or threw

planVars == <<sourcePages, contentFiles, actionMap>>

mainVars == <<remote, disk, run, idx, filesToCleanup, failures, fetchFailed,
              outcome, written, diskAtStart, prevClean, bundleConversions>>

imageVars == <<imageFiles, trackingDb, downloadedImages, downloads, call, ops>>

retryVars == <<retryConfig, apiCall, retryCount, delayTime, lastError, calls, waits,
               retryResult>>

vars == <<pc, sourcePages, contentFiles, actionMap, remote, disk, run, idx,
          filesToCleanup, failures, fetchFailed, outcome, written, diskAtStart,
          prevClean, bundleConversions, imageFiles, trackingDb, downloadedImages,
          downloads, call, ops, retryConfig, apiCall, retryCount, delayTime, lastError,
          calls, waits, retryResult>>

(* ---------------------------------------------------------------------- *)
(* withRetry (utils): configuration, errors, parts not in use               *)
(* ---------------------------------------------------------------------- *)

defaultRetryConfig ==
  [ maxRetries |-> 5, initialDelayMs |-> 1000, maxDelayMs |-> 15000,
    backoffFactor |-> 2,
    retryableErrors |-> {"notionhq_client_request_timeout", "ECONNRESET",
                         "ETIMEDOUT", "ENOTFOUND", "EAI_AGAIN"} ]

\* An error object: its code ("" when it has none), its status (0 when it
\* has none) and, as its identity, the invocation that threw it.
Error(code, status, n) == [kind |-> "error", code |-> code, status |-> status, n |-> n]

NoError == [kind |-> "none", code |-> "", status |-> 0, n |-> 0]

NoResult == [kind |-> "none", value |-> 0, error |-> NoError]

\* ShouldRetry that retries whatever the error
ShouldRetry_Always(config, error) == TRUE

\* shouldRetry of withRetry
ShouldRetry(config, error) ==
  \/ error.code \in config.retryableErrors
  \/ (error.status >= 500 /\ error.status < 600)
  \/ error.status = 429

\* GiveUp that goes on after the last permitted attempt
GiveUp_OneMore(config, error, count) ==
  ~ShouldRetry(config, error) \/ count > config.maxRetries

\* if (!shouldRetry || retryCount >= retryConfig.maxRetries) break
GiveUp(config, error, count) ==
  ~ShouldRetry(config, error) \/ count >= config.maxRetries

\* jitter of the backoff, in percent
Jitters == {-10, 0, 10}

\* Math.min(delayTime * backoffFactor * (1 + jitter), maxDelayMs)
NextDelay(config, delay, jitter) ==
  Min((delay * config.backoffFactor * (100 + jitter)) \div 100, config.maxDelayMs)

RetryIdle ==
  /\ retryConfig = defaultRetryConfig
  /\ apiCall = <<>>
  /\ retryCount = 0
  /\ delayTime = 0
  /\ lastError = NoError
  /\ calls = 0
  /\ waits = <<>>
  /\ retryResult = NoResult

NoCall == [op |-> "none"]

ImagesIdle ==
  /\ imageFiles = {}
  /\ trackingDb = {}
  /\ downloadedImages = {}
  /\ downloads = {}
  /\ call = NoCall
  /\ ops = 0

(* ---------------------------------------------------------------------- *)
(* Inputs of compareAndCreateActionMap                                     *)
(* ---------------------------------------------------------------------- *)

PageIds == {"p1", "p2", "p3"}

MyPost == <<"My", "Post">>

MyPostBang == <<"my", "post", "!">>

Other == <<"Other">>

Titles == {MyPost, MyPostBang, Other}

PostsFolder == << <<"posts">> >>

RootFolder == <<Dot>>

Folders == {PostsFolder, RootFolder}

\* last_edited_time as the remote API writes it: UTC
SourceTimes == {TimeText(t, 0) : t \in 1..MaxTime}

\* last_edited_time / lastmod as found in a header: any offset, or empty
FileTimes == {EmptyText} \cup {TimeText(t + off, off) : t \in 1..MaxTime, off \in 0..1}

\* a PageMapItem as buildSourcePageMap pushes it
PageMapItem(page, targetFolder, mountType, mountSource) ==
  [ id |-> page.id, title |-> getPageTitle(page),
    lastEdited |-> page.last_edited_time,
    targetFolder |-> targetFolder, mountType |-> mountType,
    mountSource |-> mountSource, page |-> page,
    shouldProcess |-> getPageShouldBeProcessed(page) ]

PageItem(id, title, lastEdited, targetFolder, mountType, shouldProcess) ==
  PageMapItem(PageObject(id, title, lastEdited,
                         IF shouldProcess THEN ReadyProps ELSE DraftProps),
              targetFolder, mountType,
              IF mountType = "database" THEN "db1" ELSE id)

Slugs == {createSlug(t) : t \in Titles}

\* where a markdown file with an id can lie below the content root
FilePaths ==
  LET bases == {PathJoin(ContentRoot, f) : f \in Folders}
  IN {PathJoin(b, <<s, n>>) : b \in bases, s \in Slugs, n \in {IndexMd, UnderscoreIndexMd}}
     \cup {PathJoin(b, <<s \o <<MdExt>> >>) : b \in bases, s \in Slugs}

FocusPages ==
  {PageItem("p1", t, e, f, m, sp) :
     t \in Titles, e \in SourceTimes, f \in Folders,
     m \in {"database", "page"}, sp \in BOOLEAN}

\* a PageMapItem whose optional page field is undefined
NoPayload(item) == [item EXCEPT !.page = NoPage]

SecondPages ==
  {PageItem("p2", MyPost, TimeText(MaxTime, 0), PostsFolder, "database", sp) : sp \in BOOLEAN}
  \cup {NoPayload(PageItem("p2", MyPost, TimeText(MaxTime, 0), PostsFolder, "database", TRUE))}

SourceLists ==
  {<<a>> : a \in FocusPages} \cup {<<a, b>> : a \in FocusPages, b \in SecondPages}

FocusFiles == {FileItem(id, p, e) : id \in {"p1", "p3"}, p \in FilePaths, e \in FileTimes}

SecondFiles ==
  {FileItem(id, p, TimeText(MaxTime, 0)) :
     id \in PageIds,
     p \in {PathJoin(ContentRoot, PostsFolder \o <<createSlug(MyPost), IndexMd>>),
            PathJoin(ContentRoot, PostsFolder \o <<createSlug(Other), IndexMd>>),
            PathJoin(ContentRoot, PostsFolder \o <<createSlug(MyPost) \o <<MdExt>> >>)}}

FileLists ==
  {<<>>} \cup {<<a>> : a \in FocusFiles}
  \cup {l \in {<<a, b>> : a \in FocusFiles, b \in SecondFiles} : l[1].filepath # l[2].filepath}
  \cup {l \in {<<b, a>> : a \in FocusFiles, b \in SecondFiles} : l[1].filepath # l[2].filepath}

(* ---------------------------------------------------------------------- *)
(* SpecCompare: compareAndCreateActionMap applied to its inputs            *)
(* ---------------------------------------------------------------------- *)

NoRemote == [db |-> <<>>, pages |-> <<>>]

InitCompare ==
  /\ pc = "inputs"
  /\ sourcePages \in SourceLists
  /\ contentFiles \in FileLists
  /\ actionMap = EmptyActionMap
  /\ remote = NoRemote
  /\ disk = {}
  /\ run = 0
  /\ idx = 0
  /\ filesToCleanup = <<>>
  /\ failures = 0
  /\ fetchFailed = {}
  /\ outcome = {}
  /\ written = {}
  /\ diskAtStart = {}
  /\ prevClean = FALSE
  /\ bundleConversions = <<>>
  /\ ImagesIdle
  /\ RetryIdle

Compare ==
  /\ pc = "inputs"
  /\ actionMap' = compareAndCreateActionMap(sourcePages, contentFiles)
  /\ pc' = "compared"
  /\ UNCHANGED <<sourcePages, contentFiles>>
  /\ UNCHANGED mainVars
  /\ UNCHANGED imageVars
  /\ UNCHANGED retryVars

NextCompare == Compare

SpecCompare == InitCompare /\ [][NextCompare]_vars

(* ---------------------------------------------------------------------- *)
(* SpecRetry: withRetry applied to a wrapped call                          *)
(* ---------------------------------------------------------------------- *)

\* largest maxRetries of a configuration
MaxAttempts == 3

PlanIdle ==
  /\ sourcePages = <<>>
  /\ contentFiles = <<>>
  /\ actionMap = EmptyActionMap

MainIdle ==
  /\ remote = NoRemote
  /\ disk = {}
  /\ run = 0
  /\ idx = 0
  /\ filesToCleanup = <<>>
  /\ failures = 0
  /\ fetchFailed = {}
  /\ outcome = {}
  /\ written = {}
  /\ diskAtStart = {}
  /\ prevClean = FALSE
  /\ bundleConversions = <<>>

\* the value invocation n resolves to
Ok(n) == [kind |-> "ok", code |-> "", status |-> 0, n |-> n]

\* what one invocation of the wrapped call can do: resolve, or reject with
\* a time-out code, a 503, a 429, a 400 or an error without code and status
CallOutcomes(n) ==
  { Ok(n), Error("ETIMEDOUT", 0, n), Error("", 503, n), Error("", 429, n),
    Error("validation_error", 400, n), Error("", 0, n) }

ApiCalls ==
  {f \in [1..(MaxAttempts + 1) -> UNION {CallOutcomes(n) : n \in 1..(MaxAttempts + 1)}] :
     \A n \in DOMAIN f : f[n].n = n}

InitRetry ==
  /\ pc = "retrying"
  /\ retryConfig \in {[defaultRetryConfig EXCEPT !.maxRetries = m] : m \in 1..MaxAttempts}
  /\ apiCall \in ApiCalls
  /\ retryCount = 0
  /\ delayTime = defaultRetryConfig.initialDelayMs
  /\ lastError = NoError
  /\ calls = 0
  /\ waits = <<>>
  /\ retryResult = NoResult
  /\ PlanIdle
  /\ MainIdle
  /\ ImagesIdle

\* one turn of the while (true) loop: the call, and on rejection the
\* decision and the delay
Attempt ==
  /\ pc = "retrying"
  /\ calls' = calls + 1
  /\ LET result == apiCall[calls + 1]
     IN IF result.kind = "ok"
        THEN /\ retryResult' = [kind |-> "returned", value |-> result.n, error |-> NoError]
             /\ pc' = "returned"
             /\ UNCHANGED <<retryCount, delayTime, lastError, waits>>
        ELSE /\ lastError' = result
             /\ retryCount' = retryCount + 1
             /\ IF GiveUp(retryConfig, result, retryCount + 1)
                THEN /\ pc' = "broke"
                     /\ UNCHANGED <<delayTime, waits>>
                ELSE /\ pc' = "retrying"
                     /\ waits' = Append(waits, delayTime)
                     /\ \E jitter \in Jitters :
                          delayTime' = NextDelay(retryConfig, delayTime, jitter)
             /\ UNCHANGED retryResult
  /\ UNCHANGED <<retryConfig, apiCall>>
  /\ UNCHANGED planVars
  /\ UNCHANGED mainVars
  /\ UNCHANGED imageVars

\* lines 87-88: throw lastError
Throw ==
  /\ pc = "broke"
  /\ retryResult' = [kind |-> "threw", value |-> 0, error |-> lastError]
  /\ pc' = "threw"
  /\ UNCHANGED <<retryConfig, apiCall, retryCount, delayTime, lastError, calls, waits>>
  /\ UNCHANGED planVars
  /\ UNCHANGED mainVars
  /\ UNCHANGED imageVars

NextRetry ==
  \/ Attempt
  \/ Throw

SpecRetry == InitRetry /\ [][NextRetry]_vars

\* the event loop resumes the function whenever the awaited call or timer
\* has settled
SpecRetryLive == SpecRetry /\ WF_vars(NextRetry)

(* ---------------------------------------------------------------------- *)
(* buildSourcePageMap (pageMap.ts)                                         *)
(* ---------------------------------------------------------------------- *)

\* records one query of a database returns
PageSize == 1

\* runs of main
MaxRuns == 2

\* failures (fetch, render, write) injected over the runs
MaxFailures == 1

databaseMounts == << [database_id |-> "db1", target_folder |-> PostsFolder] >>

pageMounts == << [page_id |-> "p3", target_folder |-> RootFolder] >>

\* queries the while (hasMore) loop issues for n records
NumQueries(n) == IF n = 0 THEN 1 ELSE (n + PageSize - 1) \div PageSize

\* the records pushed before query number failAt throws (0: no query throws)
Fetched(records, failAt) ==
  IF failAt = 0 THEN records
  ELSE SubSeq(records, 1, Min(Len(records), (failAt - 1) * PageSize))

DatabaseItems(mount, records, failAt) ==
  LET got == Fetched(records, failAt)
  IN [k \in DOMAIN got |->
        PageMapItem(got[k], mount.target_folder, "database", mount.database_id)]

RECURSIVE AllDatabaseItems(_, _, _)
AllDatabaseItems(rem, dbFailAt, m) ==
  IF m > Len(databaseMounts) THEN <<>>
  ELSE DatabaseItems(databaseMounts[m], rem.db[databaseMounts[m].database_id], dbFailAt[m])
         \o AllDatabaseItems(rem, dbFailAt, m + 1)

RECURSIVE AllPageItems(_, _, _)
AllPageItems(rem, pageFails, m) ==
  IF m > Len(pageMounts) THEN <<>>
  ELSE (IF pageFails[m] THEN <<>>
        ELSE << PageMapItem(rem.pages[pageMounts[m].page_id],
                            pageMounts[m].target_folder, "page", pageMounts[m].page_id) >>)
         \o AllPageItems(rem, pageFails, m + 1)

buildSourcePageMap(rem, dbFailAt, pageFails) ==
  AllDatabaseItems(rem, dbFailAt, 1) \o AllPageItems(rem, pageFails, 1)

(* ---------------------------------------------------------------------- *)
(* main (index.ts)                                                         *)
(* ---------------------------------------------------------------------- *)

pagesToProcess == actionMap.toCreate \o actionMap.toUpdate

\* legacyMapping.get(id): the path of the matching file of a page in
\* toUpdate, the empty path when undefined
legacyMapping(id) ==
  IF id \in {actionMap.toUpdate[k].id : k \in DOMAIN actionMap.toUpdate}
     /\ FindIndex(contentFiles, id) # 0
  THEN contentFiles[FindIndex(contentFiles, id)].filepath
  ELSE <<>>

\* the bundle path renderPage returns
RenderBundlePath(page) ==
  getBundlePath(getPageTitle(page.page), page.page.id, "posts", page.targetFolder,
                DEFAULT_HUGO_BUNDLE_CONFIG)

isConvertingToBundle(page) ==
  /\ legacyMapping(page.id) # <<>>
  /\ RenderBundlePath(page).isBundle
  /\ Basename(legacyMapping(page.id)) # RenderBundlePath(page).indexFileName

\* the file main writes for a page: front matter of createFrontMatter
RenderedFile(page, r) ==
  DiskFile(RenderBundlePath(page).indexFilePath, NoId, page.page.id,
           page.page.last_edited_time, r)

\* what a writeFileSync that failed after truncating leaves behind
TruncatedFile(page, r) ==
  DiskFile(RenderBundlePath(page).indexFilePath, NoId, NoId, EmptyText, r)

\* one iteration of a delete loop
DeleteOne(d, filePath) ==
  IF Exists(d, filePath)
  THEN IF Basename(filePath) = IndexMd
       THEN RemoveDir(d, Dirname(filePath))
       ELSE Unlink(d, filePath)
  ELSE d

RECURSIVE DeleteAll(_, _, _)
DeleteAll(d, files, k) ==
  IF k > Len(files) THEN d
  ELSE DeleteAll(DeleteOne(d, files[k].filepath), files, k + 1)

RECURSIVE UnlinkAll(_, _, _)
UnlinkAll(d, paths, k) ==
  IF k > Len(paths) THEN d
  ELSE UnlinkAll(Unlink(d, paths[k]), paths, k + 1)

processedPageIds ==
  LET all == actionMap.toCreate \o actionMap.toUpdate \o actionMap.unchanged
  IN {all[k].id : k \in {j \in DOMAIN all : all[j].shouldProcess}}

\* cleanupOrphanedContent
cleanupOrphanedContent(d, ids, files) ==
  DeleteAll(d, SelectSeq(files, LAMBDA file : file.id \notin ids), 1)

Results == {"ok", "renderFailed", "writeFailed", "writeTruncated"}

UrlA == Url(<<"d1", "a.png">>, << <<"X-Amz-Signature", "s1">> >>)

UrlB == Url(<<"d2", "b.png">>, << <<"X-Amz-Signature", "s1">> >>)

\* n2m.pageToMarkdown and toMarkdownString: the image URLs in the markdown
\* of a page, in order
pageToMarkdown(pageId) ==
  CASE pageId = "p1" -> <<UrlA>>
    [] pageId = "p2" -> <<UrlB>>
    [] OTHER -> <<>>

\* the delete loops, for the image files: removing a bundle directory
\* removes the images in it
RECURSIVE DeleteAllImages(_, _, _, _)
DeleteAllImages(d, imgs, files, k) ==
  IF k > Len(files) THEN imgs
  ELSE LET filePath == files[k].filepath
           removed == IF Exists(d, filePath) /\ Basename(filePath) = IndexMd
                      THEN RemoveImageDir(imgs, Dirname(filePath))
                      ELSE imgs
       IN DeleteAllImages(DeleteOne(d, filePath), removed, files, k + 1)

\* the loop over bundleConversions
RECURSIVE MigrateAll(_, _, _)
MigrateAll(imgs, conversions, k) ==
  IF k > Len(conversions) THEN imgs
  ELSE MigrateAll(migrateImagesToBundle(imgs, conversions[k].pageId,
                                        conversions[k].newBundlePath),
                  conversions, k + 1)

\* cleanupOrphanedContent, for the image files: the bundle directory of an
\* orphaned file goes with its images, and cleanupOrphanedImages(file.id)
\* is called for every orphaned file, found on disk or not
RECURSIVE OrphanedImagesLoop(_, _, _, _)
OrphanedImagesLoop(d, imgs, orphanedFiles, k) ==
  IF k > Len(orphanedFiles) THEN imgs
  ELSE LET filePath == orphanedFiles[k].filepath
           removed == IF Exists(d, filePath) /\ Basename(filePath) = IndexMd
                      THEN RemoveImageDir(imgs, Dirname(filePath))
                      ELSE imgs
       IN OrphanedImagesLoop(DeleteOne(d, filePath),
                             cleanupOrphanedImagesOfPage(removed, orphanedFiles[k].id),
                             orphanedFiles, k + 1)

cleanupOrphanedContentImages(d, imgs, ids, files) ==
  OrphanedImagesLoop(d, imgs, SelectSeq(files, LAMBDA file : file.id \notin ids), 1)

\* lines 36-48: both maps and the action map
BuildMaps ==
  /\ pc = "start"
  /\ \E dbFailAt \in [DOMAIN databaseMounts -> 0..Cardinality(PageIds)],
        pageFails \in [DOMAIN pageMounts -> BOOLEAN],
        scanned \in ScanOrders(disk) :
       LET failedDb == {m \in DOMAIN databaseMounts : dbFailAt[m] # 0}
           failedPg == {m \in DOMAIN pageMounts : pageFails[m]}
           src == buildSourcePageMap(remote, dbFailAt, pageFails)
           files == buildContentFileMap(scanned)
       IN /\ \A m \in DOMAIN databaseMounts :
               dbFailAt[m] <= NumQueries(Len(remote.db[databaseMounts[m].database_id]))
          /\ failures + Cardinality(failedDb) + Cardinality(failedPg) <= MaxFailures
          /\ failures' = failures + Cardinality(failedDb) + Cardinality(failedPg)
          /\ fetchFailed' = {databaseMounts[m].database_id : m \in failedDb}
                              \cup {pageMounts[m].page_id : m \in failedPg}
          /\ sourcePages' = src
          /\ contentFiles' = files
          /\ actionMap' = compareAndCreateActionMap(src, files)
  /\ pc' = "process"
  /\ idx' = 1
  /\ UNCHANGED <<remote, disk, run, filesToCleanup, outcome, written, diskAtStart,
                 prevClean, bundleConversions>>
  /\ UNCHANGED imageVars
  /\ UNCHANGED retryVars

\* lines 89-135: one iteration of the loop over pagesToProcess.  A render
\* that fails does so before the images of the page are processed.
ProcessPage ==
  /\ pc = "process"
  /\ idx <= Len(pagesToProcess)
  /\ LET page == pagesToProcess[idx]
         markdown == pageToMarkdown(page.page.id)
         tasks == DownloadTasks(markdown, downloadedImages)
     IN IF page.page = NoPage
        THEN UNCHANGED <<disk, filesToCleanup, failures, outcome, written,
                         bundleConversions, imageFiles, trackingDb, downloadedImages,
                         downloads>>
        ELSE \E result \in Results :
             \E outcomes \in [DOMAIN markdown -> DownloadOutcomes] :
             \E order \in Orders(tasks) :
               LET rendered == result # "renderFailed"
                   failed == {k \in tasks : outcomes[k] # "ok"}
                   failing == (IF result = "ok" THEN 0 ELSE 1)
                                + (IF rendered THEN Cardinality(failed) ELSE 0)
                   images == processImagesInMarkdown(imageFiles, trackingDb, downloadedImages,
                                                     markdown, page.page.id,
                                                     RenderBundlePath(page), order, outcomes, run)
               IN /\ \A k \in DOMAIN markdown : (k \notin tasks \/ ~rendered) => outcomes[k] = "ok"
                  /\ failures + failing <= MaxFailures
                  /\ failures' = failures + failing
                  /\ filesToCleanup' =
                       IF rendered /\ isConvertingToBundle(page)
                       THEN Append(filesToCleanup, legacyMapping(page.id))
                       ELSE filesToCleanup
                  /\ bundleConversions' =
                       IF rendered /\ isConvertingToBundle(page)
                       THEN Append(bundleConversions,
                                   [oldPath |-> legacyMapping(page.id),
                                    newBundlePath |-> RenderBundlePath(page).bundleDirPath,
                                    pageId |-> page.id])
                       ELSE bundleConversions
                  /\ disk' = CASE result = "ok" -> WriteFile(disk, RenderedFile(page, run))
                               [] result = "writeTruncated" -> WriteFile(disk, TruncatedFile(page, run))
                               [] OTHER -> disk
                  /\ written' = IF result = "ok"
                                THEN written \cup {[filepath |-> RenderBundlePath(page).indexFilePath,
                                                    id |-> page.id]}
                                ELSE written
                  /\ outcome' = outcome \cup {[id |-> page.id, result |-> result]}
                  /\ imageFiles' = IF rendered THEN images.files ELSE imageFiles
                  /\ trackingDb' = IF rendered THEN images.db ELSE trackingDb
                  /\ downloadedImages' = IF rendered THEN images.downloaded ELSE downloadedImages
                  /\ downloads' = IF rendered THEN images.issued ELSE {}
  /\ idx' = idx + 1
  /\ UNCHANGED <<pc, sourcePages, contentFiles, actionMap, remote, run, fetchFailed,
                 diskAtStart, prevClean, call, ops>>
  /\ UNCHANGED retryVars

\* lines 137-157: delete pages that no longer exist
DeletePages ==
  /\ pc = "process"
  /\ idx > Len(pagesToProcess)
  /\ disk' = DeleteAll(disk, actionMap.toDelete, 1)
  /\ imageFiles' = DeleteAllImages(disk, imageFiles, actionMap.toDelete, 1)
  /\ pc' = "cleanup"
  /\ UNCHANGED <<sourcePages, contentFiles, actionMap, remote, run, idx, filesToCleanup,
                 failures, fetchFailed, outcome, written, diskAtStart, prevClean,
                 bundleConversions>>
  /\ UNCHANGED <<trackingDb, downloadedImages, downloads, call, ops>>
  /\ UNCHANGED retryVars

\* the image files when cleanupOrphanedContent is called
ImagesBeforeCleanup == MigrateAll(imageFiles, bundleConversions, 1)

\* lines 159-185: remove converted flat files, migrate their images, and
\* remove orphaned content with its images
CleanUp ==
  /\ pc = "cleanup"
  /\ disk' = cleanupOrphanedContent(UnlinkAll(disk, filesToCleanup, 1),
                                    processedPageIds, contentFiles)
  /\ imageFiles' = cleanupOrphanedContentImages(UnlinkAll(disk, filesToCleanup, 1),
                                                ImagesBeforeCleanup,
                                                processedPageIds, contentFiles)
  /\ pc' = "done"
  /\ UNCHANGED <<sourcePages, contentFiles, actionMap, remote, run, idx, filesToCleanup,
                 failures, fetchFailed, outcome, written, diskAtStart, prevClean,
                 bundleConversions>>
  /\ UNCHANGED <<trackingDb, downloadedImages, downloads, call, ops>>
  /\ UNCHANGED retryVars

RunWasClean == fetchFailed = {} /\ \A o \in outcome : o.result = "ok"

\* the next invocation of the program, against the same remote state
NextRun ==
  /\ pc = "done"
  /\ run < MaxRuns
  /\ run' = run + 1
  /\ pc' = "start"
  /\ diskAtStart' = disk
  /\ prevClean' = RunWasClean
  /\ sourcePages' = <<>>
  /\ contentFiles' = <<>>
  /\ actionMap' = EmptyActionMap
  /\ idx' = 0
  /\ filesToCleanup' = <<>>
  /\ fetchFailed' = {}
  /\ outcome' = {}
  /\ written' = {}
  /\ bundleConversions' = <<>>
  /\ downloadedImages' = {}
  /\ downloads' = {}
  /\ UNCHANGED <<remote, disk, failures, imageFiles, trackingDb, call, ops>>
  /\ UNCHANGED retryVars

(* ---------------------------------------------------------------------- *)
(* Remote states and prior output the runs start from                      *)
(* ---------------------------------------------------------------------- *)

Now == TimeText(MaxTime, 0)

Before == TimeText(MaxTime - 1, 0)

AboutMe == <<"About", "Me">>

P1Records ==
  {PageObject("p1", t, Now, pr) : t \in {MyPost, Other}, pr \in {ReadyProps, DraftProps}}

P2Records == {PageObject("p2", MyPostBang, Now, ReadyProps)}

DbRecords ==
  {<<>>} \cup {<<a>> : a \in P1Records} \cup {<<b>> : b \in P2Records}
  \cup {<<a, b>> : a \in P1Records, b \in P2Records}

Remotes ==
  {[db |-> [d \in {"db1"} |-> recs],
    pages |-> [q \in {"p3"} |-> PageObject("p3", AboutMe, Now, ChildProps)]] :
     recs \in DbRecords}

PostsDir == PathJoin(ContentRoot, PostsFolder)

\* output of earlier runs for p1: a bundle under its present or an earlier
\* title, current or outdated, or a flat file of an earlier version
P1Files ==
  {DiskFile(PathJoin(PostsDir, <<createSlug(MyPost), IndexMd>>), NoId, "p1", e, 0) :
     e \in {Before, Now}}
  \cup {DiskFile(PathJoin(PostsDir, <<createSlug(Other), IndexMd>>), NoId, "p1", Now, 0)}
  \cup {DiskFile(PathJoin(PostsDir, <<createSlug(MyPost) \o <<MdExt>> >>), "p1", NoId, Now, 0)}

P2Files ==
  {DiskFile(PathJoin(PostsDir, <<createSlug(MyPost), IndexMd>>), NoId, "p2", Now, 0)}

P3Files ==
  {DiskFile(PathJoin(ContentRoot, <<createSlug(AboutMe), IndexMd>>), NoId, "p3", Now, 0)}

\* a markdown file the user keeps next to a bundle's index file, without id
UserFiles ==
  {DiskFile(PathJoin(PostsDir, <<createSlug(MyPost), <<"notes", MdExt>> >>),
            NoId, NoId, EmptyText, 0)}

Optional(S) == {{}} \cup {{x} : x \in S}

DistinctPaths(d) == \A f, g \in d : f.filepath = g.filepath => f = g

InitialDisks ==
  {d \in {a \cup b \cup c \cup u :
            a \in Optional(P1Files), b \in Optional(P2Files),
            c \in Optional(P3Files), u \in Optional(UserFiles)} : DistinctPaths(d)}

\* images an earlier version left in static/images for p2, under either
\* form of name
StaticImages ==
  { ImageFile(IMAGE_DIR, generateImageFilename_tracker(UrlB, "p2", 0), "p2",
              generateContentId(UrlB)),
    ImageFile(IMAGE_DIR, generateImageFilename(UrlB, "p2"), "p2", generateContentId(UrlB)) }

\* the image an earlier run downloaded into the bundle of p1
BundleImages(d) ==
  { ImageFile(Dirname(f.filepath), generateImageFilename(UrlA, "p1"), "p1",
              generateContentId(UrlA)) :
      f \in {g \in d : ResolveId(g) = "p1" /\ Basename(g.filepath) = IndexMd} }

InitialImages(d) ==
  {s \cup b : s \in Optional(StaticImages), b \in Optional(BundleImages(d))}

\* the records the earlier downloads left: key the page id, path
\* /static/images/{name}
TrackedAtStart(imgs) ==
  { TrackingInfo(f.owner, [dir |-> IMAGE_DIR, name |-> f.name], 0,
                 HashAt(imgs, [dir |-> IMAGE_DIR, name |-> f.name])) :
      f \in {g \in imgs : g.name.kind = "img"} }

Init ==
  /\ pc = "start"
  /\ remote \in Remotes
  /\ disk \in InitialDisks
  /\ imageFiles \in InitialImages(disk)
  /\ trackingDb = TrackedAtStart(imageFiles)
  /\ downloadedImages = {}
  /\ downloads = {}
  /\ call = NoCall
  /\ ops = 0
  /\ bundleConversions = <<>>
  /\ RetryIdle
  /\ diskAtStart = disk
  /\ run = 1
  /\ sourcePages = <<>>
  /\ contentFiles = <<>>
  /\ actionMap = EmptyActionMap
  /\ idx = 0
  /\ filesToCleanup = <<>>
  /\ failures = 0
  /\ fetchFailed = {}
  /\ outcome = {}
  /\ written = {}
  /\ prevClean = FALSE

Next ==
  \/ BuildMaps
  \/ ProcessPage
  \/ DeletePages
  \/ CleanUp
  \/ NextRun

Spec == Init /\ [][Next]_vars

(* ---------------------------------------------------------------------- *)
(* SpecImages: the image functions applied to drawn arguments              *)
(* ---------------------------------------------------------------------- *)

\* calls made on the image functions, restarts of the process not counted
MaxOps == 2

Signed(pathname, signature) == Url(pathname, << <<"X-Amz-Signature", signature>> >>)

\* one resource under two signatures
ImageA == Signed(<<"d1", "a.png">>, "s1")

ImageAResigned == Signed(<<"d1", "a.png">>, "s2")

\* the same resource without signing parameter
ImageAUnsigned == Url(<<"d1", "a.png">>, <<>>)

\* the same pathname with another non-signing parameter
ImageAWide == Url(<<"d1", "a.png">>, << <<"w", "1">>, <<"X-Amz-Signature", "s1">> >>)

\* another resource
ImageB == Signed(<<"d2", "b.png">>, "s1")

ImageUrls == {ImageA, ImageAResigned, ImageAUnsigned, ImageAWide, ImageB}

\* the URLs a download is requested for
DownloadUrls == {ImageA, ImageB}

\* the image URLs of a markdown text: one image, two images, one image
\* referenced twice
Markdowns == {<<ImageA>>, <<ImageA, ImageB>>, <<ImageA, ImageA>>}

\* the page whose images are downloaded
Owner == "p1"

\* the bundle path renderPage derives for the page the images belong to
BundlePathOf(pageId) ==
  getBundlePath(MyPost, pageId, "posts", PostsFolder, DEFAULT_HUGO_BUNDLE_CONFIG)

\* isNotionHostedUrl: every URL drawn here is served by the remote store
isNotionHostedUrl(url) == url \in ImageUrls

\* processNotionImage: the ImageInfo it returns
processNotionImage(files, imageUrl, pageId) ==
  LET contentId == generateContentId(imageUrl)
      needsUpdate == shouldFetchImage(files, imageUrl, pageId)
      existingImage == findLatestImageByContentId(files, contentId, pageId)
  IN IF ~isNotionHostedUrl(imageUrl)
     THEN [localPath |-> [dir |-> <<>>, name |-> HandlerName("", "")],
           shouldDownload |-> FALSE, contentId |-> ""]
     ELSE IF ~needsUpdate /\ existingImage # {}
     THEN [localPath |-> [dir |-> IMAGE_DIR, name |-> (CHOOSE f \in existingImage : TRUE).name],
           shouldDownload |-> FALSE, contentId |-> contentId]
     ELSE [localPath |-> [dir |-> IMAGE_DIR, name |-> generateImageFilename(imageUrl, pageId)],
           shouldDownload |-> TRUE, contentId |-> contentId]

\* images in static/images under the names of imageTracker.ts
TrackerImages ==
  { ImageFile(IMAGE_DIR, generateImageFilename_tracker(ImageA, "p1", 1), "p1",
              generateContentId(ImageA)),
    ImageFile(IMAGE_DIR, generateImageFilename_tracker(ImageB, "p1", 1), "p1",
              generateContentId(ImageB)),
    ImageFile(IMAGE_DIR, generateImageFilename_tracker(ImageA, "p3", 1), "p3",
              generateContentId(ImageA)) }

\* the records kept for them, key the content id
TrackerRecords(imgs) ==
  { TrackingInfo(f.bytes, [dir |-> f.dir, name |-> f.name], 0, f.bytes) : f \in imgs }

InitImages ==
  /\ pc = "images"
  /\ imageFiles \in Optional(TrackerImages)
  /\ trackingDb \in {{}, TrackerRecords(imageFiles)}
  /\ downloadedImages = {}
  /\ downloads = {}
  /\ call = NoCall
  /\ ops = 0
  /\ PlanIdle
  /\ remote = NoRemote
  /\ disk = {}
  /\ run = 1
  /\ idx = 0
  /\ filesToCleanup = <<>>
  /\ failures = 0
  /\ fetchFailed = {}
  /\ outcome = {}
  /\ written = {}
  /\ diskAtStart = {}
  /\ prevClean = FALSE
  /\ bundleConversions = <<>>
  /\ RetryIdle

imageRest == <<pc, sourcePages, contentFiles, actionMap, remote, disk, idx,
               filesToCleanup, failures, fetchFailed, outcome, written, diskAtStart,
               prevClean, bundleConversions>>

\* shouldFetchImage(url, pageId)
ShouldFetchImage ==
  /\ ops < MaxOps
  /\ ops' = ops + 1
  /\ \E url \in ImageUrls, pageId \in PageIds :
       call' = [op |-> "shouldFetchImage", url |-> url, pageId |-> pageId,
                result |-> shouldFetchImage(imageFiles, url, pageId)]
  /\ UNCHANGED <<imageFiles, trackingDb, downloadedImages, downloads, run>>
  /\ UNCHANGED imageRest
  /\ UNCHANGED retryVars

\* downloadImage(imageUrl, filePath, contentId) on what processNotionImage
\* returned for the image
DownloadImage ==
  /\ ops < MaxOps
  /\ ops' = ops + 1
  /\ \E url \in DownloadUrls, result \in DownloadOutcomes :
       LET info == processNotionImage(imageFiles, url, Owner)
           r == downloadImage(imageFiles, trackingDb, url, info.localPath, info.contentId,
                              result, Owner, run)
       IN /\ info.shouldDownload
          /\ imageFiles' = r.files
          /\ trackingDb' = r.db
          /\ call' = [op |-> "downloadImage", url |-> url, pageId |-> Owner,
                      filePath |-> info.localPath, contentId |-> info.contentId,
                      result |-> result, threw |-> r.threw, dbBefore |-> trackingDb]
  /\ UNCHANGED <<downloadedImages, downloads, run>>
  /\ UNCHANGED imageRest
  /\ UNCHANGED retryVars

\* processImagesInMarkdown(markdown, pageId, bundlePath), with the
\* Promise.all of renderPage on its download tasks
ProcessImagesInMarkdown ==
  /\ ops < MaxOps
  /\ ops' = ops + 1
  /\ \E markdown \in Markdowns :
     \E outcomes \in [DOMAIN markdown -> DownloadOutcomes] :
     \E order \in Orders(DownloadTasks(markdown, downloadedImages)) :
       LET tasks == DownloadTasks(markdown, downloadedImages)
           r == processImagesInMarkdown(imageFiles, trackingDb, downloadedImages, markdown,
                                        Owner, BundlePathOf(Owner), order, outcomes, run)
       IN /\ \A k \in DOMAIN markdown : k \notin tasks => outcomes[k] = "ok"
          /\ imageFiles' = r.files
          /\ trackingDb' = r.db
          /\ downloadedImages' = r.downloaded
          /\ downloads' = r.issued
          /\ call' = [op |-> "processImagesInMarkdown", markdown |-> markdown,
                      pageId |-> Owner, tasks |-> tasks, outcomes |-> outcomes,
                      dbBefore |-> trackingDb]
  /\ UNCHANGED run
  /\ UNCHANGED imageRest
  /\ UNCHANGED retryVars

\* cleanupOrphanedImages(activePageIds) of imageTracker.ts
CleanupOrphanedImages ==
  /\ ops < MaxOps
  /\ ops' = ops + 1
  /\ \E activePageIds \in SUBSET PageIds :
       /\ imageFiles' = cleanupOrphanedImages(imageFiles, activePageIds)
       /\ call' = [op |-> "cleanupOrphanedImages", activePageIds |-> activePageIds,
                   filesBefore |-> imageFiles]
  /\ UNCHANGED <<trackingDb, downloadedImages, downloads, run>>
  /\ UNCHANGED imageRest
  /\ UNCHANGED retryVars

\* the process ends and the program is started again
Restart ==
  /\ run < MaxRuns
  /\ ops > 0
  /\ run' = run + 1
  /\ downloadedImages' = {}
  /\ downloads' = {}
  /\ call' = NoCall
  /\ UNCHANGED <<imageFiles, trackingDb, ops>>
  /\ UNCHANGED imageRest
  /\ UNCHANGED retryVars

NextImages ==
  \/ ShouldFetchImage
  \/ DownloadImage
  \/ ProcessImagesInMarkdown
  \/ CleanupOrphanedImages
  \/ Restart

SpecImages == InitImages /\ [][NextImages]_vars

(* ---------------------------------------------------------------------- *)
(* SpecHelpers: one call of a helper function on drawn arguments           *)
(* ---------------------------------------------------------------------- *)

\* pages with every combination of the properties getPageShouldBeProcessed
\* reads, a property without value counting as absent
ClassifiedPages ==
  {PageObject("p1", MyPost, Now, Props(parentType, format, platform, status)) :
     parentType \in {"database_id", "page_id"},
     format \in {"", "Social", "Article"},
     platform \in {"", "Blog", "LinkedIn"},
     status \in {"", "Draft", "draft", "In Progress", "Done"}}

\* markdown files with or without a direct id, a NOTION_METADATA id and a
\* 32-hex-digit suffix in the file name
HeaderFiles ==
  {DiskFile(PathJoin(PostsDir, <<name>>), id, nmId, Now, 0) :
     id \in {NoId, "p1"}, nmId \in {NoId, "p2"},
     name \in {<<"note", MdExt>>, <<"note", "hex3", MdExt>>, IndexMd}}

\* bundle configurations in which the first special page and the content
\* type page have settings of their own
BundleConfigs ==
  {[DEFAULT_HUGO_BUNDLE_CONFIG EXCEPT
      !.specialPages[1].useBundle = useBundle,
      !.specialPages[1].indexFile = indexFile,
      !.contentTypes.page = [useBundle |-> pageBundle, indexFile |-> pageIndex]] :
     useBundle \in {"undefined", "true", "false"},
     indexFile \in {<<>>, UnderscoreIndexMd},
     pageBundle \in BOOLEAN,
     pageIndex \in {IndexMd, UnderscoreIndexMd}}

\* a bundle of p1 under either index file name, with or without a file of
\* the user next to it, and a flat file of p2 in the folder above
HelperDisks ==
  {{DiskFile(PathJoin(PostsDir, <<createSlug(MyPost), n>>), NoId, "p1", Now, 0),
    DiskFile(PathJoin(PostsDir, <<createSlug(Other) \o <<MdExt>> >>), "p2", NoId, Now, 0)}
     \cup u : n \in {IndexMd, UnderscoreIndexMd}, u \in Optional(UserFiles)}

InitHelpers ==
  /\ pc = "helpers"
  /\ disk \in HelperDisks
  /\ diskAtStart = disk
  /\ PlanIdle
  /\ remote = NoRemote
  /\ run = 1
  /\ idx = 0
  /\ filesToCleanup = <<>>
  /\ failures = 0
  /\ fetchFailed = {}
  /\ outcome = {}
  /\ written = {}
  /\ prevClean = FALSE
  /\ bundleConversions = <<>>
  /\ ImagesIdle
  /\ RetryIdle

helperRest == <<pc, sourcePages, contentFiles, actionMap, remote, run, idx,
                filesToCleanup, failures, fetchFailed, outcome, written, diskAtStart,
                prevClean, bundleConversions, imageFiles, trackingDb, downloadedImages,
                downloads, ops>>

\* getPageShouldBeProcessed(page)
GetPageShouldBeProcessed ==
  /\ pc = "helpers"
  /\ call = NoCall
  /\ \E page \in ClassifiedPages :
       call' = [op |-> "getPageShouldBeProcessed", page |-> page,
                shouldProcess |-> getPageShouldBeProcessed(page)]
  /\ UNCHANGED disk
  /\ UNCHANGED helperRest
  /\ UNCHANGED retryVars

\* buildContentFileMap on a content directory that holds one file
BuildContentFileMap ==
  /\ pc = "helpers"
  /\ call = NoCall
  /\ \E file \in HeaderFiles :
       call' = [op |-> "buildContentFileMap", file |-> file,
                map |-> buildContentFileMap(SetToSeq(ScannedFiles({file})))]
  /\ UNCHANGED disk
  /\ UNCHANGED helperRest
  /\ UNCHANGED retryVars

\* getBundlePath(options)
GetBundlePath ==
  /\ pc = "helpers"
  /\ call = NoCall
  /\ \E title \in Titles \cup {AboutMe}, contentType \in {"posts", "page"},
        targetFolder \in Folders, bundleConfig \in BundleConfigs :
       call' = [op |-> "getBundlePath", title |-> title, contentType |-> contentType,
                targetFolder |-> targetFolder, bundleConfig |-> bundleConfig,
                bundlePath |-> getBundlePath(title, "p1", contentType, targetFolder,
                                             bundleConfig)]
  /\ UNCHANGED disk
  /\ UNCHANGED helperRest
  /\ UNCHANGED retryVars

\* one iteration of the loop over actionMap.toDelete, on a file of the
\* content file map
DeleteFile ==
  /\ pc = "helpers"
  /\ call = NoCall
  /\ LET map == buildContentFileMap(SetToSeq(ScannedFiles(disk)))
     IN \E k \in DOMAIN map :
          /\ disk' = DeleteOne(disk, map[k].filepath)
          /\ call' = [op |-> "delete", file |-> map[k], diskBefore |-> disk]
  /\ UNCHANGED helperRest
  /\ UNCHANGED retryVars

NextHelpers ==
  \/ GetPageShouldBeProcessed
  \/ BuildContentFileMap
  \/ GetBundlePath
  \/ DeleteFile

SpecHelpers == InitHelpers /\ [][NextHelpers]_vars

(* ---------------------------------------------------------------------- *)
(* Properties of compareAndCreateActionMap                                 *)
(* ---------------------------------------------------------------------- *)

Occurrences(list, id) == Cardinality({i \in DOMAIN list : list[i].id = id})

InPlan(id) ==
  Occurrences(actionMap.toCreate, id) + Occurrences(actionMap.toUpdate, id)
    + Occurrences(actionMap.unchanged, id)

Ids(list) == {list[i].id : i \in DOMAIN list}

DistinctIds(list) == \A i, j \in DOMAIN list : list[i].id = list[j].id => i = j

ProcessedIds(pages) == {pages[i].id : i \in {j \in DOMAIN pages : pages[j].shouldProcess}}

\* C1: with pairwise distinct source ids, every source page with
\* shouldProcess = true is in exactly one of toCreate, toUpdate, unchanged,
\* and no page with shouldProcess = false is in any of them.
C1_Partition ==
  (pc = "compared" /\ DistinctIds(sourcePages)) =>
    \A i \in DOMAIN sourcePages :
      InPlan(sourcePages[i].id) = IF sourcePages[i].shouldProcess THEN 1 ELSE 0

C1_Witness ==
  /\ pc = "compared"
  /\ Len(sourcePages) = 2
  /\ sourcePages[1].shouldProcess /\ ~sourcePages[2].shouldProcess
  /\ sourcePages[1].id \in Ids(actionMap.toUpdate)
  /\ sourcePages[2].id \in Ids(contentFiles)
  /\ InPlan(sourcePages[2].id) = 0

\* C2: toDelete holds exactly the content files whose id is the id of no
\* source page with shouldProcess = true; a page with shouldProcess = false
\* and no content file is in no set.
C2_ToDeleteExact ==
  pc = "compared" =>
    /\ Range(actionMap.toDelete) \subseteq Range(contentFiles)
    /\ \A i \in DOMAIN contentFiles :
         (contentFiles[i] \in Range(actionMap.toDelete))
           <=> (contentFiles[i].id \notin ProcessedIds(sourcePages))
    /\ \A i \in DOMAIN sourcePages :
         (~sourcePages[i].shouldProcess /\ sourcePages[i].id \notin Ids(contentFiles))
           => (InPlan(sourcePages[i].id) = 0 /\ sourcePages[i].id \notin Ids(actionMap.toDelete))

C2_Witness ==
  /\ pc = "compared"
  /\ \E f \in Range(actionMap.toDelete) :
       f.id \in Ids(sourcePages) /\ f.id \notin ProcessedIds(sourcePages)
  /\ \E f \in Range(actionMap.toDelete) : f.id \notin Ids(sourcePages)

\* the content file compareAndCreateActionMap matches to a page, if any
Matched(page) == FindIndex(contentFiles, page.id) # 0

MatchOf(page) == contentFiles[FindIndex(contentFiles, page.id)]

\* C4: whenever the content file of a processed page lies at another path
\* than the index file path getBundlePath derives for the page, the page is
\* in toUpdate and renamedPages has an entry for it.
C4_RenameDetected ==
  pc = "compared" =>
    \A i \in DOMAIN sourcePages :
      LET page == sourcePages[i]
      IN (page.shouldProcess /\ Matched(page)
          /\ MatchOf(page).filepath # DerivedPath(page).indexFilePath)
         => /\ page.id \in Ids(actionMap.toUpdate)
            /\ \E r \in actionMap.renamedPages : r.id = page.id

\* C9: a bundle directory name that differs from the derived one, or a flat
\* file whose page derives a bundle, puts the page in toUpdate and not in
\* unchanged, also when both last-edited times denote the same instant.
C9_StructuralForcesUpdate ==
  pc = "compared" =>
    \A i \in DOMAIN sourcePages :
      LET page == sourcePages[i]
      IN (page.shouldProcess /\ Matched(page)
          /\ (IsBundleRename(page, MatchOf(page)) \/ IsFlatToBundle(page, MatchOf(page))))
         => /\ page \in Range(actionMap.toUpdate)
            /\ page \notin Range(actionMap.unchanged)

SameInstant(page, file) ==
  file.lastEdited # EmptyText /\ Instant(file.lastEdited) = Instant(page.lastEdited)

C9_Witness ==
  /\ pc = "compared"
  /\ \E i \in DOMAIN sourcePages :
       LET page == sourcePages[i]
       IN /\ page.shouldProcess /\ Matched(page)
          /\ IsBundleRename(page, MatchOf(page))
          /\ SameInstant(page, MatchOf(page))
          /\ page \in Range(actionMap.toUpdate)
  /\ \E i \in DOMAIN sourcePages :
       LET page == sourcePages[i]
       IN /\ page.shouldProcess /\ Matched(page)
          /\ IsFlatToBundle(page, MatchOf(page))
          /\ SameInstant(page, MatchOf(page))
          /\ page \in Range(actionMap.toUpdate)

Planned == pc \in {"process", "cleanup", "done"}

PlanIsEmpty ==
  /\ actionMap.toCreate = <<>>
  /\ actionMap.toUpdate = <<>>
  /\ actionMap.toDelete = <<>>
  /\ Ids(actionMap.unchanged) = ProcessedIds(sourcePages)

\* C3: after a run in which every fetch, render and write succeeded, the
\* next run against the same remote state plans no create, no update and no
\* delete, and holds every processed page as unchanged.
C3_Idempotent ==
  (run > 1 /\ Planned /\ prevClean /\ fetchFailed = {}) => PlanIsEmpty

\* the ids of the pages a mount source holds remotely
PagesOfMount(source) ==
  IF source \in DOMAIN remote.db
  THEN {remote.db[source][k].id : k \in DOMAIN remote.db[source]}
  ELSE {remote.pages[source].id}

\* C5: when the fetch of a mount failed, the content file that existed at
\* the start of the run for every page of that mount still exists when the
\* run ends.
C5_FailedFetchKeepsOutput ==
  pc = "done" =>
    \A source \in fetchFailed : \A f \in diskAtStart :
      ResolveId(f) \in PagesOfMount(source) => Exists(disk, f.filepath)

\* C6: a markdown file without resolvable id is never in the content file
\* map nor in toDelete, and still exists when the run ends.
C6_NoIdFileUntouched ==
  \A f \in diskAtStart :
    ResolveId(f) = NoId =>
      /\ Planned => \A k \in DOMAIN contentFiles : contentFiles[k].filepath # f.filepath
      /\ Planned => \A k \in DOMAIN actionMap.toDelete :
                      actionMap.toDelete[k].filepath # f.filepath
      /\ pc = "done" => Exists(disk, f.filepath)

\* C7: two pages with different ids never derive the same index file path,
\* and no write of a run replaces the file the run wrote for another page.
C7_CollisionFree ==
  /\ Planned =>
       \A a, b \in DOMAIN sourcePages :
         sourcePages[a].id # sourcePages[b].id
           => DerivedPath(sourcePages[a]).indexFilePath # DerivedPath(sourcePages[b]).indexFilePath
  /\ \A v, w \in written : v.filepath = w.filepath => v.id = w.id

\* C8: when the render or the write of a page failed, the content file that
\* existed for its id at the start of the run still exists unchanged when
\* the run ends.
C8_FailureKeepsPrior ==
  pc = "done" =>
    \A o \in outcome :
      o.result # "ok" =>
        \A f \in diskAtStart : ResolveId(f) = o.id => f \in disk

(* ---------------------------------------------------------------------- *)
(* Properties of the image functions                                       *)
(* ---------------------------------------------------------------------- *)

\* a tracking record under the content id of the URL, whose recorded file
\* is on disk and was downloaded for the page
TrackedFor(url, pageId) ==
  \E r \in trackingDb :
    /\ r.key = generateContentId(url)
    /\ \E f \in imageFiles : /\ f.dir = r.localPath.dir /\ f.name = r.localPath.name
                             /\ f.owner = pageId

\* C11: shouldFetchImage(url, pageId) returns false only if a tracking
\* record for the content id of the URL exists, the recorded file is on
\* disk and belongs to pageId; in every other case it returns true.
C11_FalseOnlyIfTracked ==
  (call.op = "shouldFetchImage" /\ ~call.result) => TrackedFor(call.url, call.pageId)

\* a whole file with the resource of the URL is on disk for the page, and a
\* tracking record names it
Fetched_And_Recorded(url, pageId) ==
  \E f \in imageFiles :
    /\ f.owner = pageId
    /\ f.bytes = generateContentId(url)
    /\ \E r \in trackingDb : r.localPath.name = f.name

\* no file on disk holds the resource of the URL, no record has its content id
NeverFetched(url) ==
  /\ \A f \in imageFiles : f.bytes # generateContentId(url)
  /\ \A r \in trackingDb : r.key # generateContentId(url)

\* C12: shouldFetchImage returns true for an asset that was never fetched,
\* and false once the asset was downloaded for the owner, recorded with
\* trackImage and its file is still present.
C12_AtMostOnce ==
  call.op = "shouldFetchImage" =>
    /\ NeverFetched(call.url) => call.result
    /\ Fetched_And_Recorded(call.url, call.pageId) => ~call.result

\* the two URLs have the same pathname and the same query parameters apart
\* from those whose key has X-Amz-
DifferOnlyInSigning(u, v) ==
  /\ u.pathname = v.pathname
  /\ SelectSeq(u.params, LAMBDA p : p[1] \notin {"X-Amz-Signature", "X-Amz-Credential"})
       = SelectSeq(v.params, LAMBDA p : p[1] \notin {"X-Amz-Signature", "X-Amz-Credential"})

\* C14 (content id): two URLs that differ only in their X-Amz-* query
\* parameters get the same content id.
C14_SameContentId ==
  \A u, v \in ImageUrls :
    DifferOnlyInSigning(u, v) => generateContentId(u) = generateContentId(v)

\* C14: two URLs that differ only in their X-Amz-* query parameters get the
\* same content id, and shouldFetchImage returns false for the re-signed URL
\* when the asset was fetched before for that page and its file is present.
C14_ResignedNotFetchedAgain ==
  /\ C14_SameContentId
  /\ call.op = "shouldFetchImage" =>
       \A v \in ImageUrls :
         (v # call.url /\ DifferOnlyInSigning(call.url, v)
          /\ Fetched_And_Recorded(v, call.pageId)) => ~call.result

\* C16: a download that fails at the request or while the file is written
\* leaves the tracking database as it was before the call, and downloadImage
\* rethrows the error.
C16_FailedDownloadNoRecord ==
  /\ (call.op = "downloadImage" /\ call.result # "ok")
       => (trackingDb = call.dbBefore /\ call.threw)
  /\ (call.op = "processImagesInMarkdown"
      /\ \A k \in call.tasks : call.outcomes[k] # "ok")
       => trackingDb = call.dbBefore

C16_Witness ==
  /\ call.op = "downloadImage"
  /\ call.result = "writeFailed"
  /\ call.threw
  /\ trackingDb # {}
  /\ \E f \in imageFiles : /\ f.dir = call.filePath.dir /\ f.name = call.filePath.name
                           /\ f.bytes = "partial"

\* C17: after the downloads of two images with different content ids for
\* one page succeeded through processImagesInMarkdown, the tracking database
\* holds for each image a record under its content id with the path of the
\* file the image was written to.
C17_RecordPerContentId ==
  (/\ call.op = "processImagesInMarkdown"
   /\ \A k \in call.tasks : call.outcomes[k] = "ok"
   /\ Cardinality({generateContentId(call.markdown[k]) : k \in call.tasks}) = 2)
    => \A k \in call.tasks :
         \E r \in trackingDb :
           /\ r.key = generateContentId(call.markdown[k])
           /\ r.localPath = ImagePathOf(call.markdown, k, call.pageId, BundlePathOf(call.pageId))

\* C13: main downloads an image only when shouldFetchImage holds for it, and
\* never when a whole file with the unchanged resource is already where the
\* download writes to.
C13_NoRepeatedDownload ==
  \A d \in downloads : d.needed /\ ~d.present

\* C15: orphan cleanup removes no image file of static/images that belongs
\* to a page id of the active set, the processed page ids of the run.
C15_CleanupKeepsActive ==
  [][(pc = "cleanup" /\ pc' = "done")
       => \A f \in ImagesBeforeCleanup :
            (f.dir = IMAGE_DIR /\ f.owner \in processedPageIds) => f \in imageFiles']_vars

(* ---------------------------------------------------------------------- *)
(* Properties of buildSourcePageMap                                        *)
(* ---------------------------------------------------------------------- *)

\* the items of the page map that come from a mount source
ItemsOf(source) ==
  {k \in DOMAIN sourcePages : sourcePages[k].mountSource = source}

\* C20: a database whose query threw contributes no record to the page map,
\* and every other database and every mounted page contributes all its
\* records.
C20_FailedDatabaseContributesNothing ==
  Planned =>
    /\ \A m \in DOMAIN databaseMounts :
         LET source == databaseMounts[m].database_id
         IN IF source \in fetchFailed
            THEN ItemsOf(source) = {}
            ELSE {sourcePages[k].id : k \in ItemsOf(source)} = PagesOfMount(source)
    /\ \A m \in DOMAIN pageMounts :
         LET source == pageMounts[m].page_id
         IN source \notin fetchFailed
              => {sourcePages[k].id : k \in ItemsOf(source)} = PagesOfMount(source)

(* ---------------------------------------------------------------------- *)
(* Properties of withRetry                                                 *)
(* ---------------------------------------------------------------------- *)

\* the error has no code of retryableErrors, and its status is neither 5xx
\* nor 429
NotRetryable(error) ==
  /\ error.kind = "error"
  /\ error.code \notin defaultRetryConfig.retryableErrors
  /\ ~(error.status >= 500 /\ error.status < 600)
  /\ error.status # 429

\* every invocation made so far rejected with a retryable error
AllRetryable ==
  \A n \in 1..calls : apiCall[n].kind = "error" /\ ~NotRetryable(apiCall[n])

Settled == pc \in {"returned", "threw"}

\* C18: when an invocation of the wrapped call rejects with an error that
\* is not retryable, withRetry makes no further invocation, waits no more
\* and throws that same error; when it is the first invocation, the call
\* was invoked exactly once and nothing was waited for.
C18_NonRetryableOnce ==
  \A n \in 1..calls :
    NotRetryable(apiCall[n]) =>
      /\ calls = n
      /\ Len(waits) = n - 1
      /\ pc \in {"broke", "threw"}
      /\ lastError = apiCall[n]
      /\ pc = "threw" => retryResult = [kind |-> "threw", value |-> 0, error |-> apiCall[n]]

C18_Witness ==
  /\ pc = "threw"
  /\ retryConfig.maxRetries > 1
  /\ calls = 1
  /\ waits = <<>>
  /\ apiCall[1] = Error("validation_error", 400, 1)
  /\ retryResult.error = apiCall[1]

\* what withRetry has done when it has settled
C19_Outcome ==
  /\ calls <= retryConfig.maxRetries
  /\ (pc = "threw" /\ AllRetryable)
       => /\ calls = retryConfig.maxRetries
          /\ retryResult = [kind |-> "threw", value |-> 0,
                            error |-> apiCall[retryConfig.maxRetries]]
  /\ pc = "returned"
       => /\ apiCall[calls].kind = "ok"
          /\ \A n \in 1..(calls - 1) : apiCall[n].kind = "error"
          /\ retryResult = [kind |-> "returned", value |-> apiCall[calls].n,
                            error |-> NoError]

\* C19: withRetry always settles; when every attempt rejected with a
\* retryable error the call was invoked exactly maxRetries times and the
\* error thrown is the error object of the last attempt; when an attempt
\* resolved, its value is returned and it was the last attempt.
C19_Terminates ==
  /\ []C19_Outcome
  /\ <>Settled
  /\ [][Settled => calls' = calls]_vars

C19_Witness ==
  /\ pc = "threw"
  /\ AllRetryable
  /\ retryConfig.maxRetries >= 2
  /\ calls = retryConfig.maxRetries
  /\ Len(waits) = retryConfig.maxRetries - 1
  /\ retryResult.error = apiCall[calls]

(* ---------------------------------------------------------------------- *)
(* Properties of the helper functions                                      *)
(* ---------------------------------------------------------------------- *)

\* the page has no Format, no Platform and no status property
Unclassified(page) ==
  page.props.Format = "" /\ page.props.Platform = "" /\ page.props.status = ""

\* the page has a status property named draft or in progress, in any case
MarkedNotReady(page) ==
  page.props.status \in {"Draft", "draft", "In Progress"}

\* C21: a page that has none of the classification properties yields
\* shouldProcess = true.
C21_FailsOpen ==
  (call.op = "getPageShouldBeProcessed" /\ Unclassified(call.page)) => call.shouldProcess

\* C22: a page with a status property named draft or in progress yields
\* shouldProcess = false, whatever its parent type and other properties.
C22_NotReadyExcluded ==
  (call.op = "getPageShouldBeProcessed" /\ MarkedNotReady(call.page)) => ~call.shouldProcess

\* C23: the delete of a content file that is a bundle index (index.md or
\* _index.md, isBundle in the content file map) removes every file of the
\* containing directory; the delete of a flat file removes that file only.
C23_DeleteBundleOrFile ==
  call.op = "delete" =>
    IF call.file.isBundle
    THEN disk = {f \in call.diskBefore :
                   ~IsUnder(f.filepath, Dirname(call.file.filepath))}
    ELSE disk = {f \in call.diskBefore : f.filepath # call.file.filepath}

(* ---------------------------------------------------------------------- *)
(* Source items without payload                                            *)
(* ---------------------------------------------------------------------- *)

\* C24: a source page item whose page is undefined is placed neither in
\* toCreate nor in toUpdate by compareAndCreateActionMap, and the content
\* file with its id is not in toDelete.
C24_NoPayloadNoAction ==
  pc = "compared" =>
    \A k \in DOMAIN sourcePages :
      sourcePages[k].page = NoPage =>
        /\ sourcePages[k] \notin Range(actionMap.toCreate)
        /\ sourcePages[k] \notin Range(actionMap.toUpdate)
        /\ \A j \in DOMAIN actionMap.toDelete :
             actionMap.toDelete[j].id # sourcePages[k].id

(* ---------------------------------------------------------------------- *)
(* Properties of the content file map                                      *)
(* ---------------------------------------------------------------------- *)

\* the id in 8-4-4-4-12 form of the 32 hex digits the file name ends with,
\* NoId when it does not end with such digits
HexSuffixId(filepath) ==
  IF Basename(filepath) = <<"note", "hex3", MdExt>> THEN "p3" ELSE NoId

\* the id the fixed order gives a file
ExpectedId(file) ==
  IF file.id # NoId THEN file.id
  ELSE IF file.nmId # NoId THEN file.nmId
  ELSE HexSuffixId(file.filepath)

\* C25: the content file map gives a file the header's direct id when
\* present, else the NOTION_METADATA id, else the id rebuilt from the 32 hex
\* digits at the end of the file name; a file with none of the three is not
\* in the map.
C25_IdResolutionOrder ==
  call.op = "buildContentFileMap" =>
    IF ExpectedId(call.file) = NoId
    THEN call.map = <<>>
    ELSE /\ Len(call.map) = 1
         /\ call.map[1].id = ExpectedId(call.file)
         /\ call.map[1].filepath = call.file.filepath

C25_Witness ==
  /\ call.op = "buildContentFileMap"
  /\ call.file.id = NoId
  /\ call.file.nmId = NoId
  /\ Len(call.map) = 1
  /\ call.map[1].id = "p3"

(* ---------------------------------------------------------------------- *)
(* Properties of getBundlePath                                             *)
(* ---------------------------------------------------------------------- *)

\* the lowered title contains "about", the key of the first special page
\* of every configuration drawn
MatchesAbout(title) == Includes(LowerSeq(title), <<"about">>)

\* the settings the claim expects getBundlePath to go by
ExpectedSettings(title, contentType, bundleConfig) ==
  LET special == bundleConfig.specialPages[1]
      ofType == bundleConfig.contentTypes[special.type]
      passed == bundleConfig.contentTypes[contentType]
  IN IF MatchesAbout(title)
     THEN [ useBundle |-> IF special.useBundle # "undefined"
                          THEN special.useBundle = "true" ELSE ofType.useBundle,
            indexFile |-> IF special.indexFile # <<>>
                          THEN special.indexFile ELSE ofType.indexFile ]
     ELSE [ useBundle |-> passed.useBundle, indexFile |-> passed.indexFile ]

\* C26: when the title matches a special page, isBundle and the index file
\* name of the bundle come from the special page's configuration, falling
\* back to the content type the special page names, not from the content
\* type passed; a title that matches none goes by the passed content type.
C26_SpecialPagePrecedence ==
  call.op = "getBundlePath" =>
    LET expected == ExpectedSettings(call.title, call.contentType, call.bundleConfig)
    IN /\ call.bundlePath.isBundle = expected.useBundle
       /\ expected.useBundle => call.bundlePath.indexFileName = expected.indexFile

C26_Witness ==
  /\ call.op = "getBundlePath"
  /\ call.title = AboutMe
  /\ call.contentType = "posts"
  /\ call.bundleConfig.specialPages[1].useBundle = "undefined"
  /\ call.bundleConfig.specialPages[1].indexFile = <<>>
  /\ call.bundleConfig.contentTypes.page.indexFile = UnderscoreIndexMd
  /\ call.bundlePath.isBundle
  /\ call.bundlePath.indexFileName = UnderscoreIndexMd

(* ---------------------------------------------------------------------- *)
(* Downloads within one page                                               *)
(* ---------------------------------------------------------------------- *)

\* C28: for the markdown of one page, processImagesInMarkdown creates at
\* most one download task for an image URL, however often the markdown
\* references it.
C28_OneTaskPerUrl ==
  call.op = "processImagesInMarkdown" =>
    \A j, k \in call.tasks : call.markdown[j] = call.markdown[k] => j = k

(* ---------------------------------------------------------------------- *)
(* Renames and the delete phase                                            *)
(* ---------------------------------------------------------------------- *)

\* the content files on disk that carry the page id
FilesOfId(d, id) == {f \in ScannedFiles(d) : ResolveId(f) = id}

\* C29: when a run has ended in which the bundle directory of a page was
\* renamed and the new bundle was written, exactly one content file with
\* the id of the page exists under the content root.
C29_RenameLeavesOneFile ==
  pc = "done" =>
    \A r \in actionMap.renamedPages :
      (\E o \in outcome : o.id = r.id /\ o.result = "ok")
        => Cardinality(FilesOfId(disk, r.id)) = 1

\* C30: the index file of every page of toCreate or toUpdate whose render
\* and write succeeded exists when main has finished.
C30_WrittenSurvivesDeletes ==
  pc = "done" => \A w \in written : Exists(disk, w.filepath)

====
